---- MODULE Spec2Model ----
(***************************************************************************)
(* gpumon: the GPU telemetry collection engine of src/main.go.             *)
(*                                                                         *)
(* src/main.go holds two revisions of the program back to back: lines      *)
(* 1-389 (typed DynologData, registerDynologCallback, runDynologCollector) *)
(* and lines 391-698 (the Collector interface, registerCallback,           *)
(* runCollector).  `rev` selects the revision a run executes, `cmd` the    *)
(* cobra subcommand.                                                       *)
(*                                                                         *)
(* A line of the monitoring subprocess's stderr is a sequence of tokens;   *)
(* numbers are carried in eighths (q = 4 is 0.5), which binary floating    *)
(* point represents exactly, so the float arithmetic of the collector is   *)
(* exact integer arithmetic here.  An int64 of the program is four 16-bit  *)
(* limbs, so that parsing and scaling overflow where they do in the code.  *)
(***************************************************************************)
EXTENDS Integers, Sequences, FiniteSets, TLC

\* ------------------------------------------------------------------ bounds
\* Lines the monitoring subprocess writes to stderr during a run.
MaxLines == 3
\* Invocations of the refresh callback by the exporter during a run.
MaxCalls == 3

\* ------------------------------------------------------- program constants
\* memUsed := int64(memUtil * 1024 * 1024)
MiB == 1048576
\* GPUUtilPercent: int64(util * 100)
PercentScale == 100
\* Numbers of the model are integers counting eighths.
Eighth == 8

VARIABLES
    rev,        \* revision of main.go the run executes: 1 or 2
    cmd,        \* the subcommand: "nvidia-smi-poll" or "dynolog-poll"
    pc,         \* position of the main goroutine
    exitCode,   \* exit code of the process once it has exited, else -1
    provider,   \* the meter provider (and its periodic reader) exists
    registered, \* the refresh callback is registered with the meter
    proc,       \* the dynolog subprocess: "none", "running", "exited"
    spawned,    \* number of dynolog subprocesses spawned so far
    emitted,    \* the lines the subprocess has written to stderr
    closed,     \* the write end of the stderr pipe is closed
    scanner,    \* c.scanner: [set, pos, err, buf]
    cb,         \* the refresh callback: "idle" or "collecting"
    inflight,   \* Collect calls that have been entered and not returned
    ctxDone,    \* the context handed to the running callback is done
    cur,        \* line indexes the running Collect call has been handed
    calls,      \* number of callback invocations so far
    log,        \* one record per returned Collect call
    cbRet,      \* what the last callback invocation returned
    cycleObs,   \* observations recorded by the last callback invocation
    arg,        \* the input handed to a conversion checked alone
    ret,        \* what the conversion returned: [fn, val, err]
    synPc,      \* synner generate: position of runGenerate
    file,       \* the rows of the Parquet file
    maxEx,      \* --max-examples
    existing,   \* what loadShareGPT returned: "loaded" or "nil"
    rd,         \* rows the Parquet reader has consumed
    pCur,       \* p.cur of the parquetSource
    rows,       \* the rows readAllRows has collected; then allRows
    lost,       \* indexes of the rows the reader consumed in a failed read
    ri,         \* index of the row the outer loop is at
    ci,         \* index of the chunk the inner loop is at; 0 between rows
    count,      \* count of runGenerate
    convs,      \* conversations appended to existing.Conversations
    requests    \* generation requests issued to Ollama

\* The variables of a run of the program.
run == <<rev, cmd, pc, exitCode, provider, registered, proc, spawned,
         emitted, closed, scanner, cb, inflight, ctxDone, cur, calls, log,
         cbRet, cycleObs>>

\* The variables of a run of synner generate.
syn == <<synPc, file, maxEx, existing, rd, pCur, rows, lost, ri, ci, count,
         convs, requests>>

vars == <<run, arg, ret, syn>>

\* ------------------------------------------------------------ stderr lines
Tok(c) == [c |-> c, k |-> "", ty |-> "", q |-> 0]
\* A JSON object member "k": v.  ty is "num" (a bare number), "str" (a quoted
\* numeric string) or "txt" (a quoted non-numeric string); q is the number in
\* eighths.
KV(k, ty, q) == [c |-> "kv", k |-> k, ty |-> ty, q |-> q]

Line(toks, long) == [toks |-> toks, long |-> long]

\* noise...
NoiseLine == Line(<<Tok("x")>>, FALSE)
\* data = {"device":0,"sm_active_ratio":"0.5","gpu_memory_utilization":0.25}
QuotedLine ==
    Line(<<Tok("data"), Tok("sp"), Tok("="), Tok("sp"), Tok("{"),
           KV("device", "num", 0), KV("sm_active_ratio", "str", 4),
           KV("gpu_memory_utilization", "num", 2), Tok("}")>>, FALSE)
\* metadata={"device":1,"sm_active_ratio":0.5}
BareLine ==
    Line(<<Tok("x"), Tok("data"), Tok("="), Tok("{"),
           KV("device", "num", 8), KV("sm_active_ratio", "num", 4),
           Tok("}")>>, FALSE)
\* data = {"device":0      (the object is never closed)
TruncatedLine ==
    Line(<<Tok("data"), Tok("sp"), Tok("="), Tok("sp"), Tok("{"),
           KV("device", "num", 0)>>, FALSE)
\* data x = {}             (text between the marker and the equals sign)
NearMissLine ==
    Line(<<Tok("data"), Tok("sp"), Tok("x"), Tok("="), Tok("{"), Tok("}")>>,
         FALSE)
\* a line longer than bufio.MaxScanTokenSize; toks is its buffered prefix
LongLine == Line(<<Tok("x")>>, TRUE)

Lines == {NoiseLine, QuotedLine, BareLine, TruncatedLine, NearMissLine,
          LongLine}

\* --------------------------------------------------------------- dataRegex
RECURSIVE SkipSpace(_, _)
\* \s* from position i: the first position at or after i that is no space.
SkipSpace(toks, i) ==
    IF i <= Len(toks) /\ toks[i].c = "sp" THEN SkipSpace(toks, i + 1) ELSE i

\* The position of the "{" of a match of data\s*=\s*(\{.*)$ starting at i,
\* or 0.
MatchAt(toks, i) ==
    IF toks[i].c # "data" THEN 0
    ELSE LET j == SkipSpace(toks, i + 1)
         IN  IF j > Len(toks) \/ toks[j].c # "=" THEN 0
             ELSE LET b == SkipSpace(toks, j + 1)
                  IN  IF b > Len(toks) \/ toks[b].c # "{" THEN 0 ELSE b

\* dataRegex.FindStringSubmatch(line): <<>> when nothing matches, else
\* <<whole match, group 1>> of the leftmost match.
FindStringSubmatch(toks) ==
    LET starts == {i \in 1..Len(toks) : MatchAt(toks, i) # 0}
    IN  IF starts = {} THEN <<>>
        ELSE LET i == CHOOSE s \in starts : \A t \in starts : s <= t
             IN  <<SubSeq(toks, i, Len(toks)),
                   SubSeq(toks, MatchAt(toks, i), Len(toks))>>

\* ---------------------------------------------------------- json.Unmarshal
\* The text is one JSON object: "{", members, "}", then only white space.
WellFormed(js) ==
    /\ Len(js) >= 2
    /\ js[1].c = "{"
    /\ \E e \in 2..Len(js) :
          /\ js[e].c = "}"
          /\ \A i \in 2..(e - 1) : js[i].c = "kv"
          /\ \A i \in (e + 1)..Len(js) : js[i].c = "sp"

Has(js, key) == \E i \in 1..Len(js) : js[i].c = "kv" /\ js[i].k = key

\* The member a key decodes to: the last one of that name.
Member(js, key) ==
    LET at == {i \in 1..Len(js) : js[i].c = "kv" /\ js[i].k = key}
    IN  js[CHOOSE i \in at : \A t \in at : t <= i]

\* Revision 1 decodes into DynologData: an int64 field takes a bare integer,
\* a float64 field a bare number, a `,string` float64 field a quoted number.
FieldOK(m) ==
    CASE m.k = "device" -> m.ty = "num" /\ m.q % Eighth = 0
      [] m.k = "gpu_memory_utilization" -> m.ty = "num"
      [] m.k = "sm_active_ratio" -> m.ty = "str"
      [] OTHER -> TRUE

\* err != nil of json.Unmarshal([]byte(m[1]), &raw) resp. (..., &j)
UnmarshalFails(r, js) ==
    \/ ~WellFormed(js)
    \/ r = 1 /\ \E i \in 1..Len(js) : js[i].c = "kv" /\ ~FieldOK(js[i])

\* ------------------------------------------------------------- conversions
\* fmt.Sprintf("%v", float64): the shortest decimal of q eighths, q >= 0.
FormatV(q) ==
    LET w == q \div Eighth
        f == q % Eighth
    IN  IF f = 0 THEN ToString(w)
        ELSE ToString(w) \o "." \o
                 (CASE f = 1 -> "125" [] f = 2 -> "25" [] f = 3 -> "375"
                    [] f = 4 -> "5" [] f = 5 -> "625" [] f = 6 -> "75"
                    [] OTHER -> "875")

\* parseOptionalFloat(j[key]) in eighths: a number or a numeric string
\* parses, anything else (a missing key prints as <nil>) gives 0.
parseOptionalFloat(js, key) ==
    IF ~Has(js, key) THEN 0
    ELSE LET m == Member(js, key)
         IN  IF m.ty \in {"num", "str"} THEN m.q ELSE 0

\* ------------------------------------------------------------------- int64
\* An int64 is four 16-bit limbs, most significant first, in two's
\* complement, so that the arithmetic keeps the width it has in the program.
Base == 65536

Zero64 == <<0, 0, 0, 0>>
\* 1<<63 - 1 and -1<<63
MaxInt64 == <<32767, 65535, 65535, 65535>>
MinInt64 == <<32768, 0, 0, 0>>

RECURSIVE MulAdd(_, _, _)
\* x * m + c on limbs: v is the product in the width of x, carry what ran
\* out of that width.
MulAdd(x, m, c) ==
    IF x = <<>> THEN [v |-> <<>>, carry |-> c]
    ELSE LET t == x[Len(x)] * m + c
             hi == MulAdd(SubSeq(x, 1, Len(x) - 1), m, t \div Base)
         IN  [v |-> Append(hi.v, t % Base), carry |-> hi.carry]

\* -x
Neg(x) == MulAdd([i \in 1..Len(x) |-> Base - 1 - x[i]], 1, 1).v

\* x < 0
IsNeg(x) == x[1] >= MinInt64[1]

\* The int64 of a number n the model holds as a plain integer.
ToInt64(n) ==
    LET abs == IF n < 0 THEN -n ELSE n
        x == <<0, 0, abs \div Base, abs % Base>>
    IN  IF n < 0 THEN Neg(x) ELSE x

\* A conversion that rounds n / d to the nearest integer.
Trunc_Nearest(n, d) ==
    IF n >= 0 THEN (2 * n + d) \div (2 * d) ELSE -((2 * (-n) + d) \div (2 * d))

\* int64(x) of the float x = n / d: truncation toward zero.
Trunc(n, d) == IF n >= 0 THEN n \div d ELSE -((-n) \div d)

\* Revision 2: the []GPUData a matched line converts to.
GPUDataOf(js) ==
    <<[ID |-> IF Has(js, "device")
                 THEN FormatV(Member(js, "device").q) ELSE "<nil>",
       Name |-> "DCGM-GPU",
       MemoryUsedBytes |->
           ToInt64(Trunc(parseOptionalFloat(js, "gpu_memory_utilization")
                             * MiB, Eighth)),
       GPUUtilPercent |->
           ToInt64(Trunc(parseOptionalFloat(js, "sm_active_ratio")
                             * PercentScale, Eighth))]>>

\* A DynologData field: the decoded member, or the zero value when absent.
Field(js, key) == IF Has(js, key) THEN Member(js, key).q ELSE 0

\* Revision 1: the DynologData a matched line decodes to.  Device is an
\* integer; the float fields are in eighths.  The fourteen fields no line of
\* the model carries decode like these three and stay at their zero value.
DynologDataOf(js) ==
    <<[Device |-> Field(js, "device") \div Eighth,
       SmActiveRatio |-> Field(js, "sm_active_ratio"),
       GPUMemoryUtil |-> Field(js, "gpu_memory_utilization")]>>

DataOf(r, js) == IF r = 1 THEN DynologDataOf(js) ELSE GPUDataOf(js)

\* ----------------------------------------------------------- bufio.Scanner
NoScanner == [set |-> FALSE, pos |-> 0, err |-> "nil", buf |-> FALSE]

\* bufio.NewScanner(stderr)
NewScanner == [set |-> TRUE, pos |-> 0, err |-> "nil", buf |-> FALSE]

\* A Scan that hands a line out and leaves the cursor where it was.
Scan_NoAdvance(s, em, cl) ==
    IF s.err = "nil" /\ s.pos < Len(em) /\ ~em[s.pos + 1].long
    THEN [ready |-> TRUE, ok |-> TRUE, idx |-> s.pos + 1, s |-> s]
    ELSE IF s.err = "nil" /\ s.pos >= Len(em) /\ ~cl
         THEN [ready |-> FALSE, ok |-> FALSE, idx |-> 0, s |-> s]
         ELSE [ready |-> TRUE, ok |-> FALSE, idx |-> 0,
               s |-> [s EXCEPT !.err = IF s.err = "nil" /\ s.pos >= Len(em)
                                       THEN "EOF" ELSE "ErrTooLong"]]

\* c.scanner.Scan() on the lines em of a pipe whose write end is closed iff
\* cl.  ready: the call returns now (it blocks on an open pipe with nothing
\* to read); ok: its result; idx: the line handed out; s: the scanner after.
\* A line over the token limit sets ErrTooLong and hands nothing out; the
\* next call hands out the buffered prefix, and the scanner reads no further.
Scan(s, em, cl) ==
    IF s.err = "nil"
    THEN IF s.pos < Len(em)
         THEN IF em[s.pos + 1].long
              THEN [ready |-> TRUE, ok |-> FALSE, idx |-> 0,
                    s |-> [s EXCEPT !.err = "ErrTooLong", !.buf = TRUE]]
              ELSE [ready |-> TRUE, ok |-> TRUE, idx |-> s.pos + 1,
                    s |-> [s EXCEPT !.pos = s.pos + 1]]
         ELSE IF cl
              THEN [ready |-> TRUE, ok |-> FALSE, idx |-> 0,
                    s |-> [s EXCEPT !.err = "EOF"]]
              ELSE [ready |-> FALSE, ok |-> FALSE, idx |-> 0, s |-> s]
    ELSE IF s.buf
         THEN [ready |-> TRUE, ok |-> TRUE, idx |-> s.pos + 1,
               s |-> [s EXCEPT !.pos = s.pos + 1, !.buf = FALSE]]
         ELSE [ready |-> TRUE, ok |-> FALSE, idx |-> 0, s |-> s]

\* c.scanner.Err(): nil after a clean end of input.
ScanErr(s) == IF s.err = "EOF" THEN "nil" ELSE s.err

\* -------------------------------------------------- parsePercentage / Memory
Digits == {"0", "1", "2", "3", "4", "5", "6", "7", "8", "9"}

DigitVal(ch) ==
    CASE ch = "0" -> 0 [] ch = "1" -> 1 [] ch = "2" -> 2 [] ch = "3" -> 3
      [] ch = "4" -> 4 [] ch = "5" -> 5 [] ch = "6" -> 6 [] ch = "7" -> 7
      [] ch = "8" -> 8 [] OTHER -> 9

HasPrefix(str, pre) ==
    Len(str) >= Len(pre) /\ SubSeq(str, 1, Len(pre)) = pre

RECURSIVE ReplaceAll(_, _)
\* strings.ReplaceAll(str, old, ""), old not empty
ReplaceAll(str, old) ==
    IF str = <<>> THEN <<>>
    ELSE IF HasPrefix(str, old)
         THEN ReplaceAll(SubSeq(str, Len(old) + 1, Len(str)), old)
         ELSE <<Head(str)>> \o ReplaceAll(Tail(str), old)

RECURSIVE TrimLeft(_)
TrimLeft(str) ==
    IF str # <<>> /\ Head(str) = " " THEN TrimLeft(Tail(str)) ELSE str

RECURSIVE TrimRight(_)
TrimRight(str) ==
    IF str # <<>> /\ str[Len(str)] = " "
    THEN TrimRight(SubSeq(str, 1, Len(str) - 1)) ELSE str

\* strings.TrimSpace
TrimSpace(str) == TrimRight(TrimLeft(str))

RECURSIVE Decimal(_)
\* strconv.ParseUint on a run of digits: v the value modulo 2^64, over iff
\* the value does not fit 64 bits.
Decimal(ds) ==
    IF ds = <<>> THEN [v |-> Zero64, over |-> FALSE]
    ELSE LET hi == Decimal(SubSeq(ds, 1, Len(ds) - 1))
             t == MulAdd(hi.v, 10, DigitVal(ds[Len(ds)]))
         IN  [v |-> t.v, over |-> hi.over \/ t.carry > 0]

\* A conversion in the manner of atoi: a text that is no number gives 0 and
\* no error.
ParseInt_Atoi(str) ==
    LET signed == str # <<>> /\ Head(str) \in {"+", "-"}
        neg == signed /\ Head(str) = "-"
        ds == IF signed THEN Tail(str) ELSE str
        un == Decimal(ds)
        cut == un.over \/ IsNeg(un.v)
    IN  IF ds = <<>> \/ \E i \in 1..Len(ds) : ds[i] \notin Digits
        THEN [val |-> Zero64, err |-> "nil"]
        ELSE IF ~neg /\ cut
             THEN [val |-> MaxInt64, err |-> "value out of range"]
             ELSE IF neg /\ cut /\ (un.over \/ un.v # MinInt64)
                  THEN [val |-> MinInt64, err |-> "value out of range"]
                  ELSE [val |-> IF neg THEN Neg(un.v) ELSE un.v,
                        err |-> "nil"]

\* strconv.ParseInt(str, 10, 64): [val, err].  A text that is no number
\* gives 0 and a syntax error; a number outside the int64 range gives the
\* nearest int64 and a range error.
ParseInt(str) ==
    LET signed == str # <<>> /\ Head(str) \in {"+", "-"}
        neg == signed /\ Head(str) = "-"
        ds == IF signed THEN Tail(str) ELSE str
        un == Decimal(ds)
        cut == un.over \/ IsNeg(un.v)
    IN  IF ds = <<>> \/ \E i \in 1..Len(ds) : ds[i] \notin Digits
        THEN [val |-> Zero64, err |-> "invalid syntax"]
        ELSE IF ~neg /\ cut
             THEN [val |-> MaxInt64, err |-> "value out of range"]
             ELSE IF neg /\ cut /\ (un.over \/ un.v # MinInt64)
                  THEN [val |-> MinInt64, err |-> "value out of range"]
                  ELSE [val |-> IF neg THEN Neg(un.v) ELSE un.v,
                        err |-> "nil"]

\* return strconv.ParseInt(s, 10, 64): the value ParseInt gives is returned
\* also when it gives an error.
parsePercentage(val) == ParseInt(TrimSpace(ReplaceAll(val, <<"%">>)))

\* A parseMemory that scales by 1024 once.
parseMemory_KiB(val) ==
    LET n == ParseInt(TrimSpace(ReplaceAll(val, <<"M", "i", "B">>)))
    IN  IF n.err # "nil" THEN [val |-> Zero64, err |-> n.err]
        ELSE [val |-> MulAdd(n.val, 1024, 0).v, err |-> "nil"]

\* num * 1024 * 1024 is a multiplication of int64s: it wraps.
parseMemory(val) ==
    LET n == ParseInt(TrimSpace(ReplaceAll(val, <<"M", "i", "B">>)))
    IN  IF n.err # "nil" THEN [val |-> Zero64, err |-> n.err]
        ELSE [val |-> MulAdd(MulAdd(n.val, 1024, 0).v, 1024, 0).v,
              err |-> "nil"]

\* ---------------------------------------------------- nvidia-smi documents
GPU(id, name, used, util) ==
    [ID |-> id, ProductName |-> name, Used |-> used, GPUUtil |-> util]

\* 8796093022207 = 2^43 - 1: the largest n with n * 2^20 <= 2^63 - 1
Pow43Less1 == <<"8", "7", "9", "6", "0", "9", "3", "0", "2", "2", "2", "0",
                "7">>
\* 8796093022208 = 2^43
Pow43 == <<"8", "7", "9", "6", "0", "9", "3", "0", "2", "2", "2", "0", "8">>
\* 9223372036854775807 = 2^63 - 1
Pow63Less1 == <<"9", "2", "2", "3", "3", "7", "2", "0", "3", "6", "8", "5",
                "4", "7", "7", "5", "8", "0", "7">>
\* 9223372036854775808 = 2^63
Pow63 == <<"9", "2", "2", "3", "3", "7", "2", "0", "3", "6", "8", "5", "4",
           "7", "7", "5", "8", "0", "8">>

Nines == [i \in 1..20 |-> "9"]

\* id="0", name="Test-GPU", used="1024 MiB", util="42%"
TestGPU == GPU("0", "Test-GPU", <<"1", "0", "2", "4", " ", "M", "i", "B">>,
               <<"4", "2", "%">>)
\* used="N/A", util="7 %": a memory field that is no number
OtherGPU == GPU("1", "Other-GPU", <<"N", "/", "A">>, <<"7", " ", "%">>)
\* used="512 MiB", util="99999999999999999999 %": a utilization field whose
\* number does not fit an int64
HugeGPU == GPU("2", "Huge-GPU", <<"5", "1", "2", " ", "M", "i", "B">>,
               Nines \o <<" ", "%">>)

\* used="8796093022208 MiB", util="150 %": numbers that parse, a byte count
\* that does not fit an int64 and a percentage above one hundred
WrapGPU == GPU("3", "Wrap-GPU", Pow43 \o <<" ", "M", "i", "B">>,
               <<"1", "5", "0", " ", "%">>)

\* What `nvidia-smi -q -x` can give a Collect call.  kind: the command fails
\* ("exec error": it cannot be started, or exits non-zero after it printed
\* gpus), its output is no well-formed document ("unmarshal error": the
\* decoder stops at the malformed place, after it decoded gpus), or its
\* output is the document of gpus.
SmiOutputs ==
    {[kind |-> "exec error", gpus |-> <<>>],
     [kind |-> "exec error", gpus |-> <<TestGPU>>],
     [kind |-> "unmarshal error", gpus |-> <<>>],
     [kind |-> "unmarshal error", gpus |-> <<TestGPU>>],
     [kind |-> "xml", gpus |-> <<>>],
     [kind |-> "xml", gpus |-> <<TestGPU>>],
     [kind |-> "xml", gpus |-> <<TestGPU, OtherGPU>>],
     [kind |-> "xml", gpus |-> <<HugeGPU, TestGPU>>],
     [kind |-> "xml", gpus |-> <<WrapGPU>>]}

\* The output of a call that runs no command.
NoOutput == [kind |-> "none", gpus |-> <<>>]

\* A results loop that walks the devices from the last to the first.
SmiResults_Reversed(gpus) ==
    [i \in 1..Len(gpus) |->
        LET g == gpus[Len(gpus) + 1 - i]
        IN  [ID |-> g.ID,
             Name |-> g.ProductName,
             MemoryUsedBytes |-> parseMemory(g.Used).val,
             GPUUtilPercent |-> parsePercentage(g.GPUUtil).val]]

\* The results loop of NvidiaSMICollector.Collect.
SmiResults(gpus) ==
    [i \in 1..Len(gpus) |->
        [ID |-> gpus[i].ID,
         Name |-> gpus[i].ProductName,
         MemoryUsedBytes |-> parseMemory(gpus[i].Used).val,
         GPUUtilPercent |-> parsePercentage(gpus[i].GPUUtil).val]]

\* ------------------------------------------------------------ observations
Obs(inst, id, name, val) ==
    [inst |-> inst, gpu_id |-> id, gpu_name |-> name, val |-> val]

\* A loop that labels every observation with the first reading's device.
ObserveGPUData_FirstLabel(data) ==
    [i \in 1..(2 * Len(data)) |->
        LET g == data[(i + 1) \div 2]
        IN  IF i % 2 = 1
            THEN Obs("gpu.memory_used_bytes", data[1].ID, data[1].Name,
                     g.MemoryUsedBytes)
            ELSE Obs("gpu.utilization_percent", data[1].ID, data[1].Name,
                     g.GPUUtilPercent)]

\* The loop of the callback of registerCallback / runNvidiaSmiCollector: a
\* memory and a utilization observation per reading, in order.
ObserveGPUData(data) ==
    [i \in 1..(2 * Len(data)) |->
        LET g == data[(i + 1) \div 2]
        IN  IF i % 2 = 1
            THEN Obs("gpu.memory_used_bytes", g.ID, g.Name, g.MemoryUsedBytes)
            ELSE Obs("gpu.utilization_percent", g.ID, g.Name,
                     g.GPUUtilPercent)]

\* The instruments of registerDynologCallback in the order it observes them,
\* each with the DynologData field it reports ("" for a field no line of the
\* model carries, which is observed at its zero value).
DynologInstruments ==
    <<<<"dcgm.error", "">>, <<"dcgm.nvlink_rx_bytes", "">>,
      <<"dcgm.nvlink_tx_bytes", "">>, <<"dcgm.pcie_rx_bytes", "">>,
      <<"dcgm.pcie_tx_bytes", "">>, <<"dcgm.fp16_active_ratio", "">>,
      <<"dcgm.fp32_active_ratio", "">>, <<"dcgm.fp64_active_ratio", "">>,
      <<"dcgm.gpu_frequency_mhz", "">>,
      <<"dcgm.gpu_memory_util", "GPUMemoryUtil">>,
      <<"dcgm.gpu_power_draw_watts", "">>,
      <<"dcgm.graphics_engine_active_ratio", "">>,
      <<"dcgm.hbm_mem_bw_util", "">>,
      <<"dcgm.sm_active_ratio", "SmActiveRatio">>,
      <<"dcgm.sm_occupancy_ratio", "">>,
      <<"dcgm.tensorcore_active_ratio", "">>>>

ObserveDynologData(data) ==
    [i \in 1..Len(DynologInstruments) |->
        LET d == data[1]
            f == DynologInstruments[i][2]
        IN  Obs(DynologInstruments[i][1], ToString(d.Device), "",
                CASE f = "GPUMemoryUtil" -> d.GPUMemoryUtil
                  [] f = "SmActiveRatio" -> d.SmActiveRatio
                  [] OTHER -> 0)]

\* No normalizer has been called.
NoArg == [body |-> <<>>, suffix |-> <<>>]
NoRet == [fn |-> "none", val |-> Zero64, err |-> "nil"]

\* ------------------------------------------------------------------- state
Alive == pc \notin {"exited", "killed", "panicked"}

Dynolog == cmd = "dynolog-poll"

RunInit ==
    /\ rev \in {1, 2}
    /\ cmd \in {"nvidia-smi-poll", "dynolog-poll"}
    /\ pc = IF cmd = "dynolog-poll" THEN "dynologCmd" ELSE "initProvider"
    /\ exitCode = -1
    /\ provider = FALSE
    /\ registered = FALSE
    /\ proc = "none"
    /\ spawned = 0
    /\ emitted = <<>>
    /\ closed = FALSE
    /\ scanner = NoScanner
    /\ cb = "idle"
    /\ inflight = 0
    /\ ctxDone = FALSE
    /\ cur = <<>>
    /\ calls = 0
    /\ log = <<>>
    /\ cbRet = "none"
    /\ cycleObs = <<>>

\* synner is not running.
SynIdle ==
    /\ synPc = "idle"
    /\ file = <<>>
    /\ maxEx = 0
    /\ existing = "loaded"
    /\ rd = 0
    /\ pCur = 0
    /\ rows = <<>>
    /\ lost = {}
    /\ ri = 0
    /\ ci = 0
    /\ count = 0
    /\ convs = 0
    /\ requests = 0

Init ==
    /\ RunInit
    /\ arg = NoArg
    /\ ret = NoRet
    /\ SynIdle

\* ---------------------------------------------------------- main goroutine
\* os.Exit(1) in main after rootCmd.Execute returned an error.
ExitWithError ==
    /\ pc' = "exited"
    /\ exitCode' = 1

\* DynologCollector.Start: StderrPipe or cmd.Start may fail; else the
\* subprocess runs and a scanner is attached to its stderr.
Start(ok) ==
    IF ok
    THEN /\ proc' = "running"
         /\ spawned' = spawned + 1
         /\ scanner' = NewScanner
    ELSE UNCHANGED <<proc, spawned, scanner>>

\* A RunE that drops the error of Start and goes on to the runner.
DynologCmd_IgnoreStartError ==
    /\ pc = "dynologCmd"
    /\ \E ok \in BOOLEAN : Start(ok)
    /\ pc' = "initProvider"
    /\ UNCHANGED <<syn, arg, ret,
                   rev, cmd, exitCode, provider, registered, emitted, closed,
                   cb, inflight, ctxDone, cur, calls, log, cbRet, cycleObs>>

\* A RunE that logs the error of Start and returns nil: main exits zero.
DynologCmd_LogStartError ==
    /\ pc = "dynologCmd"
    /\ \E ok \in BOOLEAN :
          /\ Start(ok)
          /\ IF ok
             THEN pc' = "initProvider" /\ UNCHANGED exitCode
             ELSE pc' = "exited" /\ exitCode' = 0
    /\ UNCHANGED <<syn, arg, ret,
                   rev, cmd, provider, registered, emitted, closed, cb,
                   inflight, ctxDone, cur, calls, log, cbRet, cycleObs>>

\* RunE of dynologCmd up to the call of the runner.
DynologCmd ==
    /\ pc = "dynologCmd"
    /\ \E ok \in BOOLEAN :
          /\ Start(ok)
          /\ IF ok
             THEN pc' = "initProvider" /\ UNCHANGED exitCode
             ELSE ExitWithError
    /\ UNCHANGED <<syn, arg, ret,
                   rev, cmd, provider, registered, emitted, closed, cb,
                   inflight, ctxDone, cur, calls, log, cbRet, cycleObs>>

\* initProvider at the head of the runner: on an error the runner returns
\* before its defer is set.
InitProvider ==
    /\ pc = "initProvider"
    /\ \E ok \in BOOLEAN :
          IF ok
          THEN /\ provider' = TRUE
               /\ pc' = IF Dynolog /\ rev = 1 THEN "registerCallback"
                        ELSE "newMeterWithGauges"
               /\ UNCHANGED exitCode
          ELSE /\ ExitWithError
               /\ UNCHANGED provider
    /\ UNCHANGED <<syn, arg, ret,
                   rev, cmd, registered, proc, spawned, emitted, closed,
                   scanner, cb, inflight, ctxDone, cur, calls, log, cbRet,
                   cycleObs>>

\* newMeterWithGauges in the runner.
NewMeterWithGauges ==
    /\ pc = "newMeterWithGauges"
    /\ \E ok \in BOOLEAN :
          pc' = IF ok THEN "registerCallback" ELSE "shutdown"
    /\ UNCHANGED <<syn, arg, ret,
                   rev, cmd, exitCode, provider, registered, proc, spawned,
                   emitted, closed, scanner, cb, inflight, ctxDone, cur,
                   calls, log, cbRet, cycleObs>>

\* m.RegisterCallback in the runner, then <-ctx.Done() on a context that is
\* context.Background(): the runner blocks for good.
RegisterCallback ==
    /\ pc = "registerCallback"
    /\ \E ok \in BOOLEAN :
          /\ registered' = ok
          /\ pc' = IF ok THEN "blocked" ELSE "shutdown"
    /\ UNCHANGED <<syn, arg, ret,
                   rev, cmd, exitCode, provider, proc, spawned, emitted,
                   closed, scanner, cb, inflight, ctxDone, cur, calls, log,
                   cbRet, cycleObs>>

\* The deferred shutdown() of a runner that returns an error: it waits for a
\* running collection, shuts the provider down, and main exits non-zero.
Shutdown ==
    /\ pc = "shutdown"
    /\ cb = "idle"
    /\ provider' = FALSE
    /\ ExitWithError
    /\ UNCHANGED <<syn, arg, ret,
                   rev, cmd, registered, proc, spawned, emitted, closed,
                   scanner, cb, inflight, ctxDone, cur, calls, log, cbRet,
                   cycleObs>>

\* A termination signal: no handler is installed, so the process dies where
\* it stands.  The subprocess dies with it when the signal went to the whole
\* process group, and is orphaned otherwise.
Kill ==
    /\ Alive
    /\ pc' = "killed"
    /\ \E group \in BOOLEAN :
          IF group /\ proc = "running"
          THEN proc' = "exited" /\ closed' = TRUE
          ELSE UNCHANGED <<proc, closed>>
    /\ UNCHANGED <<syn, arg, ret,
                   rev, cmd, exitCode, provider, registered, spawned,
                   emitted, scanner, cb, inflight, ctxDone, cur, calls, log,
                   cbRet, cycleObs>>

\* -------------------------------------------------------------- subprocess
\* dynolog writes one more line to its stderr (what it writes after the
\* collecting process has died is read by no one and is left out).
Emit ==
    /\ Alive
    /\ proc = "running"
    /\ ~closed
    /\ Len(emitted) < MaxLines
    /\ \E l \in Lines : emitted' = Append(emitted, l)
    /\ UNCHANGED <<syn, arg, ret,
                   rev, cmd, pc, exitCode, provider, registered, proc,
                   spawned, closed, scanner, cb, inflight, ctxDone, cur,
                   calls, log, cbRet, cycleObs>>

\* dynolog exits (or closes its stderr): the pipe reaches end of file.
SubprocessExit ==
    /\ proc = "running"
    /\ proc' = "exited"
    /\ closed' = TRUE
    /\ UNCHANGED <<syn, arg, ret,
                   rev, cmd, pc, exitCode, provider, registered, spawned,
                   emitted, scanner, cb, inflight, ctxDone, cur, calls, log,
                   cbRet, cycleObs>>

\* ------------------------------------------------------- refresh callback
\* A callback that treats an error of Collect as fatal.
RefreshCallback_Fatal(err, data) ==
    /\ cb' = "idle"
    /\ cbRet' = err
    /\ UNCHANGED registered
    /\ IF err # "nil"
       THEN /\ cycleObs' = <<>>
            /\ pc' = "exited"
            /\ exitCode' = 1
       ELSE /\ cycleObs' = IF Dynolog /\ rev = 1
                           THEN ObserveDynologData(data)
                           ELSE ObserveGPUData(data)
            /\ UNCHANGED <<pc, exitCode>>

\* A callback that logs an error of Collect and returns nil.
RefreshCallback_Swallow(err, data) ==
    /\ cb' = "idle"
    /\ UNCHANGED <<pc, exitCode, registered>>
    /\ cbRet' = "nil"
    /\ cycleObs' = IF err # "nil" THEN <<>>
                   ELSE IF Dynolog /\ rev = 1 THEN ObserveDynologData(data)
                   ELSE ObserveGPUData(data)

\* The callback after c.Collect returned (err, data): an error is returned
\* as it is and nothing is observed; else every reading is observed and nil
\* is returned.
RefreshCallback(err, data) ==
    /\ cb' = "idle"
    /\ UNCHANGED <<pc, exitCode, registered>>
    /\ cbRet' = err
    /\ cycleObs' = IF err # "nil" THEN <<>>
                   ELSE IF Dynolog /\ rev = 1 THEN ObserveDynologData(data)
                   ELSE ObserveGPUData(data)

\* A Collect call that read lines, or the output out of its command,
\* returns (data, err) to the callback that made it.
Returns(lines, out, err, data) ==
    /\ log' = Append(log, [lines |-> lines, out |-> out, err |-> err,
                           data |-> data, ctx |-> ctxDone,
                           closed |-> closed,
                           eof |-> scanner'.err = "EOF"])
    /\ inflight' = inflight - 1
    /\ cur' = <<>>
    /\ RefreshCallback(err, data)

\* A Collect call of the DynologCollector returns.
CollectReturns(lines, err, data) == Returns(lines, NoOutput, err, data)

\* The periodic reader of initProvider collects: it runs the registered
\* callback, one collection at a time, and the callback calls c.Collect.
\* Collect on a collector that was never started dereferences a nil scanner.
TickGuard == Alive /\ provider /\ registered /\ cb = "idle"

\* A callback that hands Collect to a goroutine and returns at once.
Tick_Async ==
    /\ TickGuard
    /\ calls < MaxCalls
    /\ calls' = calls + 1
    /\ ctxDone' = FALSE
    /\ cbRet' = "nil"
    /\ cycleObs' = <<>>
    /\ cur' = <<>>
    /\ inflight' = inflight + 1
    /\ UNCHANGED <<syn, arg, ret,
                   rev, cmd, pc, exitCode, provider, registered, proc,
                   spawned, emitted, closed, scanner, log, cb>>

Tick ==
    /\ TickGuard
    /\ calls < MaxCalls
    /\ calls' = calls + 1
    /\ ctxDone' = FALSE
    /\ cbRet' = "none"
    /\ cycleObs' = <<>>
    /\ cur' = <<>>
    /\ IF Dynolog /\ ~scanner.set
       THEN pc' = "panicked" /\ UNCHANGED <<cb, inflight>>
       ELSE /\ cb' = "collecting"
            /\ inflight' = inflight + 1
            /\ UNCHANGED pc
    /\ UNCHANGED <<syn, arg, ret,
                   rev, cmd, exitCode, provider, registered, proc, spawned,
                   emitted, closed, scanner, log>>

\* The context the reader handed to the running callback expires or is
\* cancelled.
CtxDone ==
    /\ Alive
    /\ cb = "collecting"
    /\ ~ctxDone
    /\ ctxDone' = TRUE
    /\ UNCHANGED <<syn, arg, ret,
                   rev, cmd, pc, exitCode, provider, registered, proc,
                   spawned, emitted, closed, scanner, cb, inflight, cur,
                   calls, log, cbRet, cycleObs>>

\* ------------------------------------------------ DynologCollector.Collect
\* A loop body whose pattern is anchored at the start of the line.
LoopBody_Anchored(idx) ==
    LET toks == emitted[idx].toks
        b == MatchAt(toks, 1)
        lines == Append(cur, idx)
    IN  IF b = 0
        THEN /\ cur' = lines
             /\ UNCHANGED <<pc, exitCode, registered, cb, inflight, log,
                            cbRet, cycleObs>>
        ELSE IF UnmarshalFails(rev, SubSeq(toks, b, Len(toks)))
             THEN CollectReturns(lines, "json parse error", <<>>)
             ELSE CollectReturns(lines, "nil",
                                 DataOf(rev, SubSeq(toks, b, Len(toks))))

\* A loop body that scans on past a matched line it cannot parse.
LoopBody_SkipUnparsed(idx) ==
    LET m == FindStringSubmatch(emitted[idx].toks)
        lines == Append(cur, idx)
    IN  IF Len(m) < 2 \/ UnmarshalFails(rev, m[2])
        THEN /\ cur' = lines
             /\ UNCHANGED <<pc, exitCode, registered, cb, inflight, log,
                            cbRet, cycleObs>>
        ELSE CollectReturns(lines, "nil", DataOf(rev, m[2]))

\* The body of `for c.scanner.Scan()` on the line of index idx.
\* A loop body that passes over a matching line when a newer one is there.
LoopBody_Newest(idx) ==
    LET m == FindStringSubmatch(emitted[idx].toks)
        lines == Append(cur, idx)
        newer == \E i \in (idx + 1)..Len(emitted) :
                    Len(FindStringSubmatch(emitted[i].toks)) >= 2
    IN  IF Len(m) < 2 \/ newer
        THEN /\ cur' = lines
             /\ UNCHANGED <<pc, exitCode, registered, cb, inflight, log,
                            cbRet, cycleObs>>
        ELSE IF UnmarshalFails(rev, m[2])
             THEN CollectReturns(lines, "json parse error", <<>>)
             ELSE CollectReturns(lines, "nil", DataOf(rev, m[2]))

LoopBody(idx) ==
    LET m == FindStringSubmatch(emitted[idx].toks)
        lines == Append(cur, idx)
    IN  IF Len(m) < 2
        THEN /\ cur' = lines
             /\ UNCHANGED <<pc, exitCode, registered, cb, inflight, log,
                            cbRet, cycleObs>>
        ELSE IF UnmarshalFails(rev, m[2])
             THEN CollectReturns(lines, "json parse error", <<>>)
             ELSE CollectReturns(lines, "nil", DataOf(rev, m[2]))

\* The test of the scanner's error inverted.
AfterLoop_Inverted ==
    IF ScanErr(scanner') = "nil"
    THEN CollectReturns(cur, "reading dynolog stderr", <<>>)
    ELSE CollectReturns(cur, "no dynolog JSON lines found yet", <<>>)

\* After the loop: the scanner's error if it has one, else "no lines".
AfterLoop ==
    IF ScanErr(scanner') # "nil"
    THEN CollectReturns(cur, "reading dynolog stderr", <<>>)
    ELSE CollectReturns(cur, "no dynolog JSON lines found yet", <<>>)

\* A Collect that gives up a blocked read once its context is done.
DynologCollect_CtxBounded ==
    /\ Alive
    /\ Dynolog
    /\ inflight > 0
    /\ LET r == Scan(scanner, emitted, closed)
       IN  IF r.ready
           THEN /\ scanner' = r.s
                /\ IF r.ok THEN LoopBody(r.idx) ELSE AfterLoop
           ELSE /\ ctxDone
                /\ scanner' = scanner
                /\ CollectReturns(cur, "context canceled", <<>>)
    /\ UNCHANGED <<syn, arg, ret,
                   rev, cmd, provider, proc, spawned, emitted, closed,
                   ctxDone, calls>>

\* A Collect that starts the subprocess anew when its stream has ended.
DynologCollect_Restart ==
    /\ Alive
    /\ Dynolog
    /\ inflight > 0
    /\ LET r == Scan(scanner, emitted, closed)
       IN  /\ r.ready
           /\ IF r.ok
              THEN /\ scanner' = r.s
                   /\ LoopBody(r.idx)
                   /\ UNCHANGED <<proc, spawned, emitted, closed>>
              ELSE /\ scanner' = NewScanner
                   /\ proc' = "running"
                   /\ spawned' = spawned + 1
                   /\ emitted' = <<>>
                   /\ closed' = FALSE
                   /\ CollectReturns(<<>>, "no dynolog JSON lines found yet",
                                     <<>>)
    /\ UNCHANGED <<syn, arg, ret,
                   rev, cmd, provider, ctxDone, calls>>

\* One c.scanner.Scan() of a running Collect and what follows it, up to the
\* next Scan or to the return of the callback.  The context is never read.
DynologCollect ==
    /\ Alive
    /\ Dynolog
    /\ inflight > 0
    /\ LET r == Scan(scanner, emitted, closed)
       IN  /\ r.ready
           /\ scanner' = r.s
           /\ IF r.ok THEN LoopBody(r.idx) ELSE AfterLoop
    /\ UNCHANGED <<syn, arg, ret,
                   rev, cmd, provider, proc, spawned, emitted, closed,
                   ctxDone, calls>>

\* ---------------------------------------------- NvidiaSMICollector.Collect
\* A Collect that runs the command with exec.Command: the context is not
\* handed to it, and the call waits for the command to end by itself.
NvidiaCollect_NoContext ==
    /\ Alive
    /\ ~Dynolog
    /\ inflight > 0
    /\ UNCHANGED <<syn, arg, ret,
                   rev, cmd, provider, proc, spawned, emitted, closed,
                   scanner, ctxDone, calls>>
    /\ \E out \in SmiOutputs :
          IF out.kind = "exec error"
          THEN Returns(<<>>, out, "exec error", <<>>)
          ELSE IF out.kind = "unmarshal error"
               THEN Returns(<<>>, out, "unmarshal error", <<>>)
               ELSE Returns(<<>>, out, "nil", SmiResults(out.gpus))

\* A Collect that returns, with its error, the readings of the devices it
\* had got hold of.
NvidiaCollect_PartialOnError ==
    /\ Alive
    /\ ~Dynolog
    /\ inflight > 0
    /\ UNCHANGED <<syn, arg, ret,
                   rev, cmd, provider, proc, spawned, emitted, closed,
                   scanner, ctxDone, calls>>
    /\ \E out \in SmiOutputs :
          IF ctxDone \/ out.kind = "exec error"
          THEN Returns(<<>>, out, "exec error", SmiResults(out.gpus))
          ELSE IF out.kind = "unmarshal error"
               THEN Returns(<<>>, out, "unmarshal error",
                            SmiResults(out.gpus))
               ELSE Returns(<<>>, out, "nil", SmiResults(out.gpus))

\* exec.CommandContext(ctx, "nvidia-smi", "-q", "-x").Output() ends: killed
\* when the context is done, else with one of the command's outputs.
NvidiaCollect ==
    /\ Alive
    /\ ~Dynolog
    /\ inflight > 0
    /\ UNCHANGED <<syn, arg, ret,
                   rev, cmd, provider, proc, spawned, emitted, closed,
                   scanner, ctxDone, calls>>
    /\ \E out \in SmiOutputs :
          IF ctxDone \/ out.kind = "exec error"
          THEN Returns(<<>>, out, "exec error", <<>>)
          ELSE IF out.kind = "unmarshal error"
               THEN Returns(<<>>, out, "unmarshal error", <<>>)
               ELSE Returns(<<>>, out, "nil", SmiResults(out.gpus))

Next ==
    \/ DynologCmd
    \/ InitProvider
    \/ NewMeterWithGauges
    \/ RegisterCallback
    \/ Shutdown
    \/ Kill
    \/ Emit
    \/ SubprocessExit
    \/ Tick
    \/ CtxDone
    \/ DynologCollect
    \/ NvidiaCollect

Spec == Init /\ [][Next]_vars

\* ---------------------------------------------------- the normalizers alone
\* parseMemory and parsePercentage are pure: they are checked on their own,
\* on texts drawn from a set, one call per behaviour.

\* The numbers 0..MaxN are all among the texts.
MaxN == 12

DigitChar(d) == <<"0", "1", "2", "3", "4", "5", "6", "7", "8", "9">>[d + 1]

RECURSIVE Itoa(_)
\* The decimal text of n >= 0.
Itoa(n) ==
    IF n < 10 THEN <<DigitChar(n)>>
    ELSE Append(Itoa(n \div 10), DigitChar(n % 10))

\* Texts of non-negative integers.
Numbers ==
    {Itoa(n) : n \in 0..MaxN}
       \cup {<<"0", "0", "7">>, <<"1", "0", "2", "4">>, Pow43Less1, Pow43,
             Pow63Less1, Pow63, Nines}

\* Texts that are no number.
NonNumbers ==
    {<<>>, <<"N", "/", "A">>, <<"1", "2", "x">>, <<"4", ".", "5">>, <<"-">>,
     <<"1", " ", "2">>}

\* What follows the body of a field text: nothing, or a unit.
Suffixes ==
    {<<>>, <<" ", "M", "i", "B">>, <<"M", "i", "B">>, <<"%">>, <<" ", "%">>}

Args == [body : Numbers \cup NonNumbers, suffix : Suffixes]

\* The string the normalizer is called with.
Text(a) == a.body \o a.suffix

NormInit ==
    /\ RunInit
    /\ rev = 2
    /\ cmd = "nvidia-smi-poll"
    /\ arg \in Args
    /\ ret = NoRet
    /\ SynIdle

\* mem, _ := parseMemory(g.FBMemory.Used)
CallParseMemory ==
    /\ ret.fn = "none"
    /\ ret' = [fn |-> "parseMemory", val |-> parseMemory(Text(arg)).val,
               err |-> parseMemory(Text(arg)).err]
    /\ UNCHANGED <<run, arg, syn>>

\* util, _ := parsePercentage(g.Utilization.GPUUtil)
CallParsePercentage ==
    /\ ret.fn = "none"
    /\ ret' = [fn |-> "parsePercentage",
               val |-> parsePercentage(Text(arg)).val,
               err |-> parsePercentage(Text(arg)).err]
    /\ UNCHANGED <<run, arg, syn>>

NormNext ==
    \/ CallParseMemory
    \/ CallParsePercentage

NormSpec == NormInit /\ [][NormNext]_vars

\* ------------------------------------------------- the line conversion alone
\* Collect's conversion of one matched line (main.go 508-527), applied to
\* the payloads of a bounded catalog.
\* The device indexes a payload carries.
MaxDevice == 2
\* The ratios a payload carries run from -MaxRatio to MaxRatio eighths.
MaxRatio == 8

\* The ways a ratio member appears in a payload: absent, a bare number, a
\* quoted number, a quoted text that is no number.
RatioMembers(key) ==
    {<<>>, <<KV(key, "txt", 0)>>}
        \cup {<<KV(key, ty, q)>> : ty \in {"num", "str"},
                                   q \in (-MaxRatio)..MaxRatio}

DeviceMembers ==
    {<<>>} \cup {<<KV("device", "num", Eighth * d)>> : d \in 0..MaxDevice}

\* matches[1] of a matched line: an object, or one cut off before its brace.
Payloads ==
    {<<Tok("{")>> \o d \o s \o m \o e :
        d \in DeviceMembers, s \in RatioMembers("sm_active_ratio"),
        m \in RatioMembers("gpu_memory_utilization"),
        e \in {<<Tok("}")>>, <<>>}}

ConvInit ==
    /\ RunInit
    /\ rev = 2
    /\ cmd = "dynolog-poll"
    /\ arg \in Payloads
    /\ ret = NoRet
    /\ SynIdle

\* json.Unmarshal([]byte(m[1]), &j) and the reading built from j.
CollectPayload ==
    /\ ret.fn = "none"
    /\ ret' = IF UnmarshalFails(2, arg)
              THEN [fn |-> "Collect", val |-> <<>>,
                    err |-> "json parse error"]
              ELSE [fn |-> "Collect", val |-> GPUDataOf(arg), err |-> "nil"]
    /\ UNCHANGED <<run, arg, syn>>

ConvNext == CollectPayload

ConvSpec == ConvInit /\ [][ConvNext]_vars

\* ---------------------------------------------------------- synner generate
\* Rows of the Parquet file.
MaxRows == 3
\* Largest --max-examples.
MaxExamples == 2

\* A row as ReadByNumber hands it out: its Go type and its Text.
Row(type, text) == [type |-> type, Text |-> text]

RowKinds ==
    {Row("RomanceRow", "A"), Row("RomanceRow", "B"), Row("RomanceRow", ""),
     Row("other", "")}

\* len(ch.Split(row)): the chunks of at least minChunkLength bytes.
Chunks(text) == IF text = "A" THEN 1 ELSE 2

\* openParquetSource refuses a file without rows.
Files == UNION {[1..n -> RowKinds] : n \in 1..MaxRows}

\* runGenerate after openParquetSource succeeded: p.max is Len(file).
SynInit ==
    /\ RunInit
    /\ rev = 2
    /\ cmd = "nvidia-smi-poll"
    /\ arg = NoArg
    /\ ret = NoRet
    /\ synPc = "readAllRows"
    /\ file \in Files
    /\ maxEx \in 0..MaxExamples
    /\ existing = "unset"
    /\ rd = 0
    /\ pCur = 0
    /\ rows = <<>>
    /\ lost = {}
    /\ ri = 0
    /\ ci = 0
    /\ count = 0
    /\ convs = 0
    /\ requests = 0

\* An iteration of readAllRows that ends the loop at the first error.
ReadAllRows_StopAtError ==
    /\ synPc = "readAllRows"
    /\ IF pCur >= Len(file)
       THEN /\ synPc' = "allRows"
            /\ UNCHANGED <<rd, pCur, rows, lost>>
       ELSE \E fail, adv \in BOOLEAN :
               IF fail /\ rd < Len(file)
               THEN /\ rd' = IF adv THEN rd + 1 ELSE rd
                    /\ lost' = IF adv THEN lost \cup {rd + 1} ELSE lost
                    /\ synPc' = "allRows"
                    /\ UNCHANGED <<pCur, rows>>
               ELSE /\ pCur' = pCur + 1
                    /\ UNCHANGED lost
                    /\ IF rd >= Len(file)
                       THEN /\ synPc' = "allRows"
                            /\ UNCHANGED <<rd, rows>>
                       ELSE /\ rd' = rd + 1
                            /\ IF file[rd + 1].type # "RomanceRow"
                                  \/ file[rd + 1].Text = ""
                               THEN /\ synPc' = "allRows"
                                    /\ UNCHANGED rows
                               ELSE /\ rows' = Append(rows, file[rd + 1].Text)
                                    /\ UNCHANGED synPc
    /\ UNCHANGED <<run, arg, ret, file, maxEx, existing, ri, ci, count, convs,
                   requests>>

\* One iteration of the loop of readAllRows, with the NextRow it calls.
\* NextRow: EOF once p.cur has reached p.max; an error of ReadByNumber is
\* returned with p.cur as it was, and the reader has or has not consumed
\* the row (adv); with no error p.cur is advanced, and no row means EOF, a
\* row of another type or of empty text an error, else the text.
\* readAllRows: EOF ends the loop, an error is logged and the loop goes on,
\* a text is appended.
ReadAllRows ==
    /\ synPc = "readAllRows"
    /\ IF pCur >= Len(file)
       THEN /\ synPc' = "allRows"
            /\ UNCHANGED <<rd, pCur, rows, lost>>
       ELSE \E fail, adv \in BOOLEAN :
               IF fail /\ rd < Len(file)
               THEN /\ rd' = IF adv THEN rd + 1 ELSE rd
                    /\ lost' = IF adv THEN lost \cup {rd + 1} ELSE lost
                    /\ UNCHANGED <<synPc, pCur, rows>>
               ELSE /\ pCur' = pCur + 1
                    /\ UNCHANGED lost
                    /\ IF rd >= Len(file)
                       THEN /\ synPc' = "allRows"
                            /\ UNCHANGED <<rd, rows>>
                       ELSE /\ rd' = rd + 1
                            /\ UNCHANGED synPc
                            /\ IF file[rd + 1].type # "RomanceRow"
                                  \/ file[rd + 1].Text = ""
                               THEN UNCHANGED rows
                               ELSE rows' = Append(rows, file[rd + 1].Text)
    /\ UNCHANGED <<run, arg, ret, file, maxEx, existing, ri, ci, count, convs,
                   requests>>

\* The orders rand.Shuffle can leave a slice in.
Shuffles(sq) ==
    {[i \in 1..Len(sq) |-> sq[p[i]]] :
        p \in {f \in [1..Len(sq) -> 1..Len(sq)] :
                  \A i, j \in 1..Len(sq) : f[i] = f[j] => i = j}}

\* runGenerate from the return of readAllRows to its loops: no row is an
\* error; else the rows are shuffled and the output file is loaded, which
\* gives a nil *ShareGPTData when the file holds no valid JSON.
AllRows ==
    /\ synPc = "allRows"
    /\ IF rows = <<>>
       THEN /\ synPc' = "failed"
            /\ UNCHANGED <<rows, existing, ri>>
       ELSE /\ rows' \in Shuffles(rows)
            /\ existing' \in {"loaded", "nil"}
            /\ ri' = 1
            /\ synPc' = "loop"
    /\ UNCHANGED <<run, arg, ret, file, maxEx, rd, pCur, lost, ci, count,
                   convs, requests>>

\* The head of `for i, row := range allRows`.
OuterLoop ==
    /\ synPc = "loop"
    /\ ci = 0
    /\ IF ri > Len(rows) \/ count >= maxEx
       THEN synPc' = "save" /\ UNCHANGED ci
       ELSE ci' = 1 /\ UNCHANGED synPc
    /\ UNCHANGED <<run, arg, ret, file, maxEx, existing, rd, pCur, rows, lost,
                   ri, count, convs, requests>>

\* An inner loop that stops only once count has passed maxEx.
InnerLoop_OffByOne ==
    /\ synPc = "loop"
    /\ ci >= 1
    /\ IF ci > Chunks(rows[ri]) \/ count > maxEx
       THEN /\ ri' = ri + 1
            /\ ci' = 0
            /\ UNCHANGED <<synPc, count, convs, requests>>
       ELSE /\ requests' = requests + 1
            /\ \E resp \in {"error", "empty", "turns"} :
                  IF resp = "turns"
                  THEN IF existing = "nil"
                       THEN /\ synPc' = "panicked"
                            /\ UNCHANGED <<ri, ci, count, convs>>
                       ELSE /\ convs' = convs + 1
                            /\ count' = count + 1
                            /\ ci' = ci + 1
                            /\ UNCHANGED <<synPc, ri>>
                  ELSE /\ ci' = ci + 1
                       /\ UNCHANGED <<synPc, ri, count, convs>>
    /\ UNCHANGED <<run, arg, ret, file, maxEx, existing, rd, pCur, rows,
                   lost>>

\* One iteration of `for j, chunk := range chunks`: the loop ends after the
\* last chunk or once count has reached maxEx; else generateChatOllama is
\* called, and turns it returns are appended to existing.Conversations (a
\* nil pointer when the output file could not be decoded) and counted.
InnerLoop ==
    /\ synPc = "loop"
    /\ ci >= 1
    /\ IF ci > Chunks(rows[ri]) \/ count >= maxEx
       THEN /\ ri' = ri + 1
            /\ ci' = 0
            /\ UNCHANGED <<synPc, count, convs, requests>>
       ELSE /\ requests' = requests + 1
            /\ \E resp \in {"error", "empty", "turns"} :
                  IF resp = "turns"
                  THEN IF existing = "nil"
                       THEN /\ synPc' = "panicked"
                            /\ UNCHANGED <<ri, ci, count, convs>>
                       ELSE /\ convs' = convs + 1
                            /\ count' = count + 1
                            /\ ci' = ci + 1
                            /\ UNCHANGED <<synPc, ri>>
                  ELSE /\ ci' = ci + 1
                       /\ UNCHANGED <<synPc, ri, count, convs>>
    /\ UNCHANGED <<run, arg, ret, file, maxEx, existing, rd, pCur, rows,
                   lost>>

\* saveShareGPT and the return of runGenerate.
SaveShareGPT ==
    /\ synPc = "save"
    /\ \E ok \in BOOLEAN : synPc' = IF ok THEN "done" ELSE "failed"
    /\ UNCHANGED <<run, arg, ret, file, maxEx, existing, rd, pCur, rows, lost,
                   ri, ci, count, convs, requests>>

SynNext ==
    \/ ReadAllRows
    \/ AllRows
    \/ OuterLoop
    \/ InnerLoop
    \/ SaveShareGPT

SynSpec == SynInit /\ [][SynNext]_vars

\* ------------------------------------------------------------------ history
RECURSIVE Flat(_)
\* The line indexes the calls of lg were handed, in the order of the calls.
Flat(lg) ==
    IF lg = <<>> THEN <<>>
    ELSE Flat(SubSeq(lg, 1, Len(lg) - 1)) \o lg[Len(lg)].lines

\* Every line index handed to a Collect call so far, the running call's last.
Consumed == Flat(log) \o cur

\* dataRegex matches the line of index idx.
Matches(idx) == Len(FindStringSubmatch(emitted[idx].toks)) >= 2

\* The JSON text of the matching line of index idx.
Payload(idx) == FindStringSubmatch(emitted[idx].toks)[2]

\* The calls of the log that Collect of the Stream-Tail collector returned.
Returned == IF Dynolog THEN 1..Len(log) ELSE {}

\* ------------------------------------------------------------------ claims
\* C1: on one Stream-Tail collector every line of the error stream is handed
\* to at most one Collect call, and at most once: over all sequential calls,
\* returned or running, the indexes handed out strictly increase and never
\* pass the cursor.
C1_LineConsumedAtMostOnce ==
    Dynolog =>
        /\ \A i, j \in 1..Len(Consumed) :
              i < j => Consumed[i] < Consumed[j]
        /\ \A i \in 1..Len(Consumed) : Consumed[i] <= scanner.pos

\* C1 witness: two Collect calls have returned, each having consumed lines.
C1_Witness ==
    /\ Dynolog
    /\ Len(log) >= 2
    /\ log[1].lines # <<>>
    /\ log[2].lines # <<>>

\* C2: Collect consumes the lines in stream order from the cursor on, without
\* a gap; a call that returns a reading skipped only lines the pattern does
\* not match, its last line is the first matching one, the reading is the one
\* parsed from that line, and the cursor stands right after it.
C2_FirstMatchingLine ==
    Dynolog =>
        /\ \A i \in 1..Len(Consumed) : Consumed[i] = i
        /\ scanner.pos = Len(Consumed)
        /\ \A k \in Returned :
              log[k].err = "nil" =>
                 LET ls == log[k].lines
                 IN  /\ ls # <<>>
                     /\ \A i \in 1..(Len(ls) - 1) : ~Matches(ls[i])
                     /\ Matches(ls[Len(ls)])
                     /\ log[k].data = DataOf(rev, Payload(ls[Len(ls)]))

\* C2 witness: a call skipped a line and returned a reading while a later
\* line of the stream was already there, unconsumed.
C2_Witness ==
    /\ Dynolog
    /\ \E k \in 1..Len(log) :
          /\ log[k].err = "nil"
          /\ Len(log[k].lines) >= 2
    /\ inflight = 0
    /\ Len(emitted) > scanner.pos

C4_MalformedIsHardError ==
    Dynolog =>
        /\ \A k \in Returned : \A i \in 1..Len(log[k].lines) :
              LET ls == log[k].lines
              IN  (Matches(ls[i]) /\ \A h \in 1..(i - 1) : ~Matches(ls[h]))
                      => /\ i = Len(ls)
                         /\ UnmarshalFails(rev, Payload(ls[i]))
                               => /\ log[k].err = "json parse error"
                                  /\ log[k].data = <<>>
        /\ \A i \in 1..Len(cur) : ~Matches(cur[i])

\* C4 witness: a call returned a parse error while the next line of the
\* stream, already written, is a matching line that parses.
C4_Witness ==
    /\ Dynolog
    /\ \E k \in 1..Len(log) :
          /\ log[k].err = "json parse error"
          /\ LET n == log[k].lines[Len(log[k].lines)] + 1
             IN  /\ n <= Len(emitted)
                 /\ Matches(n)
                 /\ ~UnmarshalFails(rev, Payload(n))

\* A running Collect is suspended in Scan: the pipe is open and holds nothing
\* the scanner has not read.
Blocked ==
    /\ Alive
    /\ Dynolog
    /\ inflight > 0
    /\ ~Scan(scanner, emitted, closed).ready

\* C5 as stated: a Collect call returns only when a matching line has arrived
\* or the stream has closed.
C5_ReturnsOnlyOnMatchOrClose ==
    \A k \in Returned :
        \/ log[k].lines # <<>> /\ Matches(log[k].lines[Len(log[k].lines)])
        \/ log[k].closed

\* C5 amended: a Collect call suspended on the open stream does not return,
\* whether or not its context is done; a call returns only with a matching
\* line, at the end of the closed stream, or with the error of a scanner that
\* failed on its input (a line over the token limit).
C5_BlocksRegardlessOfContext ==
    /\ [](\A k \in Returned :
             \/ /\ log[k].err \in {"nil", "json parse error"}
                /\ log[k].lines # <<>>
                /\ Matches(log[k].lines[Len(log[k].lines)])
             \/ /\ log[k].err = "no dynolog JSON lines found yet"
                /\ log[k].eof
                /\ log[k].closed
             \/ /\ log[k].err = "reading dynolog stderr"
                /\ scanner.err = "ErrTooLong")
    /\ [][Blocked => Len(log') = Len(log)]_vars

\* C5 witness: a Collect call that has consumed a line is suspended on the
\* open stream and its context is done.
C5_Witness ==
    /\ Blocked
    /\ ctxDone
    /\ cur # <<>>

\* C6: the monitoring subprocess is spawned by Start alone, in dynologCmd
\* before any Collect call, and never by a Collect call: at most one is
\* spawned in a run.
C6_SpawnedOnlyByStart ==
    /\ [](spawned <= 1)
    /\ [][spawned' # spawned =>
             /\ pc = "dynologCmd"
             /\ calls = 0
             /\ Len(log') = Len(log)]_vars

\* C6 witness: Collect calls have returned a reading, a parse error and the
\* stream-ended error, and one subprocess was spawned.
C6_Witness ==
    /\ spawned = 1
    /\ \E i, j, k \in Returned :
          /\ log[i].err = "nil"
          /\ log[j].err = "json parse error"
          /\ log[k].err = "no dynolog JSON lines found yet"

\* C7: in a dynolog-poll run the callback is registered only after Start has
\* succeeded (the subprocess is spawned and the scanner is set), so no
\* Collect call runs or panics on a collector without a scanner.
C7_StartedBeforeRegistered ==
    Dynolog =>
        /\ pc # "panicked"
        /\ (provider \/ registered \/ calls > 0)
              => scanner.set /\ spawned = 1 /\ proc # "none"

\* C7 witness: a Collect call is running in a dynolog-poll run.
C7_Witness ==
    /\ Dynolog
    /\ registered
    /\ inflight = 1

\* C8: at most one Collect call is in flight at any time, and one is in
\* flight exactly while the callback that made it has not returned.
C8_OneCollectInFlight ==
    /\ inflight <= 1
    /\ inflight = 1 <=> cb = "collecting"

\* C8 witness: on a Stream-Tail collector a second Collect call is in flight
\* after the first has returned.
C8_Witness ==
    /\ Dynolog
    /\ inflight = 1
    /\ Len(log) >= 1
    /\ calls >= 2

\* C9: when a Collect call returns an error the process goes on: the runner
\* stays blocked, nothing has exited, the callback stays registered, and the
\* exporter can invoke it again on its next tick.
C9_TransientErrorNotFatal ==
    [][(Len(log') = Len(log) + 1 /\ log'[Len(log')].err # "nil") =>
          /\ pc' = "blocked"
          /\ exitCode' = -1
          /\ registered'
          /\ TickGuard']_vars

\* C9 witness: after a Collect call that returned an error, a later one was
\* made and returned.
C9_Witness ==
    /\ Len(log) >= 2
    /\ log[1].err # "nil"
    /\ pc = "blocked"

\* C10: when Collect has returned an error, the callback has returned that
\* same error and recorded no observation in that cycle.
C10_ErrorPropagated ==
    (pc # "panicked" /\ cb = "idle" /\ Len(log) > 0
        /\ log[Len(log)].err # "nil")
       => /\ cbRet = log[Len(log)].err
          /\ cycleObs = <<>>

\* C10 witness: a cycle whose Collect returned an error has ended, after a
\* cycle that recorded observations.
C10_Witness ==
    /\ cb = "idle"
    /\ Len(log) >= 2
    /\ log[1].err = "nil"
    /\ log[1].data # <<>>
    /\ log[2].err # "nil"

\* The last Collect call of the log returned without error to a callback of
\* registerCallback or runNvidiaSmiCollector, and that callback has returned.
GPUCycleDone ==
    /\ ~(Dynolog /\ rev = 1)
    /\ pc # "panicked"
    /\ cb = "idle"
    /\ Len(log) > 0
    /\ log[Len(log)].err = "nil"

\* C11: when Collect returned k readings, the cycle has recorded, by the
\* time the callback has returned, exactly 2k observations: for the j-th
\* reading one on the memory gauge and then one on the utilization gauge,
\* both labeled with that reading's gpu_id and gpu_name and carrying its
\* memory and its utilization; readings of distinct device ids have distinct
\* gpu_id labels.
C11_OnePairPerReading ==
    GPUCycleDone =>
        LET data == log[Len(log)].data
            k == Len(data)
        IN  /\ cbRet = "nil"
            /\ Len(cycleObs) = 2 * k
            /\ \A j \in 1..k :
                  /\ cycleObs[2 * j - 1] =
                        Obs("gpu.memory_used_bytes", data[j].ID,
                            data[j].Name, data[j].MemoryUsedBytes)
                  /\ cycleObs[2 * j] =
                        Obs("gpu.utilization_percent", data[j].ID,
                            data[j].Name, data[j].GPUUtilPercent)
            /\ \A i, j \in 1..k :
                  data[i].ID # data[j].ID
                     => cycleObs[2 * i].gpu_id # cycleObs[2 * j].gpu_id

\* C11 witness: a cycle of the Snapshot collector has ended whose Collect
\* returned two readings of distinct devices, and four observations stand
\* recorded.
C11_Witness ==
    /\ GPUCycleDone
    /\ ~Dynolog
    /\ Len(log[Len(log)].data) = 2
    /\ log[Len(log)].data[1].ID # log[Len(log)].data[2].ID
    /\ Len(cycleObs) = 4

\* C12 as stated: a run that had reached its blocking wait and was then
\* cancelled by a termination signal has ended with the provider shut down
\* (its buffered observations flushed) and with exit code zero.
C12_CancelledRunFlushesAndExitsZero ==
    (registered /\ ~Alive /\ pc # "panicked")
       => /\ ~provider
          /\ exitCode = 0

\* C13 as stated: no run of dynolog-poll that a termination signal has ended
\* leaves the subprocess started by Start alive.
C13_SubprocessTerminated ==
    (Dynolog /\ pc = "killed") => proc # "running"

\* C14: in a dynolog-poll run whose Start has launched no subprocess, no
\* provider is built, no callback is registered and no Collect is invoked;
\* and once Start has failed the process has exited with a non-zero code.
C14_StartFailureBuildsNothing ==
    (Dynolog /\ spawned = 0) =>
        /\ ~provider
        /\ ~registered
        /\ calls = 0
        /\ inflight = 0
        /\ log = <<>>
        /\ pc \notin {"dynologCmd", "killed"}
              => pc = "exited" /\ exitCode # 0 /\ exitCode # -1

\* C14 witness: a dynolog-poll run has exited after Start failed.
C14_Witness ==
    /\ Dynolog
    /\ spawned = 0
    /\ proc = "none"
    /\ pc = "exited"
    /\ exitCode = 1

\* The calls of the log that Collect of the Snapshot collector returned.
SmiReturned == IF Dynolog THEN {} ELSE 1..Len(log)

C16_FailureReturnsNoReadings ==
    \A i \in SmiReturned :
        /\ log[i].out.kind = "exec error" => log[i].err = "exec error"
        /\ (log[i].out.kind = "unmarshal error" /\ ~log[i].ctx)
              => log[i].err = "unmarshal error"
        /\ log[i].err # "nil" => log[i].data = <<>>

\* C16 witness: a Snapshot Collect has returned the collection error for a
\* command that exited non-zero after printing a device, and another the
\* parse error for a document that breaks off after its first device.
C16_Witness ==
    \E i, j \in SmiReturned :
        /\ log[i].out = [kind |-> "exec error", gpus |-> <<TestGPU>>]
        /\ log[i].err = "exec error"
        /\ log[j].out = [kind |-> "unmarshal error", gpus |-> <<TestGPU>>]
        /\ log[j].err = "unmarshal error"

\* C17: a Snapshot Collect whose command printed a well-formed document
\* (and whose context was not done) returns no error and exactly one
\* reading per device element, in document order, the j-th carrying the
\* j-th device's id and display name and the normalisations of its memory
\* and utilization texts; a document without devices gives no reading and
\* no error; the device id="0", name="Test-GPU", used="1024 MiB",
\* util="42%" gives memory 1073741824 and utilization 42.
C17_OneReadingPerDevice ==
    \A i \in SmiReturned :
        LET gpus == log[i].out.gpus
            data == log[i].data
        IN  /\ log[i].err = "nil" <=> (log[i].out.kind = "xml" /\ ~log[i].ctx)
            /\ log[i].err = "nil" =>
                  /\ Len(data) = Len(gpus)
                  /\ \A j \in 1..Len(gpus) :
                        /\ data[j].ID = gpus[j].ID
                        /\ data[j].Name = gpus[j].ProductName
                        /\ data[j].MemoryUsedBytes =
                              parseMemory(gpus[j].Used).val
                        /\ data[j].GPUUtilPercent =
                              parsePercentage(gpus[j].GPUUtil).val
                        /\ gpus[j] = TestGPU =>
                              data[j] = [ID |-> "0", Name |-> "Test-GPU",
                                         MemoryUsedBytes |->
                                             ToInt64(1073741824),
                                         GPUUtilPercent |-> ToInt64(42)]

\* C17 witness: Snapshot Collect calls have returned without error for a
\* document of two devices and for a document of none.
C17_Witness ==
    \E i, j \in SmiReturned :
        /\ log[i].err = "nil"
        /\ Len(log[i].out.gpus) = 2
        /\ Len(log[i].data) = 2
        /\ log[j].err = "nil"
        /\ log[j].out.gpus = <<>>
        /\ log[j].data = <<>>

\* C18 as stated: in a Snapshot Collect that returns a document's readings,
\* a device whose memory text or utilization text fails to parse has a
\* reading with that field equal to zero and its other fields as the texts
\* give them, and Collect returns no error.
C18_FailedFieldIsZero ==
    \A i \in SmiReturned :
        (log[i].out.kind = "xml" /\ ~log[i].ctx) =>
            /\ log[i].err = "nil"
            /\ Len(log[i].data) = Len(log[i].out.gpus)
            /\ \A j \in 1..Len(log[i].out.gpus) :
                  LET g == log[i].out.gpus[j]
                      d == log[i].data[j]
                      mem == parseMemory(g.Used)
                      util == parsePercentage(g.GPUUtil)
                  IN  /\ d.ID = g.ID
                      /\ d.Name = g.ProductName
                      /\ d.MemoryUsedBytes =
                            IF mem.err # "nil" THEN Zero64 ELSE mem.val
                      /\ d.GPUUtilPercent =
                            IF util.err # "nil" THEN Zero64 ELSE util.val

\* ------------------------------------------- decimal texts, for the claims
RECURSIVE DivBy10(_, _)
\* The limbs x, with r carried in from above, divided by ten: [q, r].
DivBy10(x, r) ==
    IF x = <<>> THEN [q |-> <<>>, r |-> r]
    ELSE LET t == r * Base + Head(x)
             lo == DivBy10(Tail(x), t % 10)
         IN  [q |-> <<t \div 10>> \o lo.q, r |-> lo.r]

RECURSIVE UDec(_)
\* The digits of the limbs x read as an unsigned number; none for zero.
UDec(x) ==
    IF \A i \in 1..Len(x) : x[i] = 0 THEN <<>>
    ELSE Append(UDec(DivBy10(x, 0).q), DigitChar(DivBy10(x, 0).r))

\* The decimal text of an int64.
Show64(x) ==
    IF x = Zero64 THEN <<"0">>
    ELSE IF IsNeg(x) THEN <<"-">> \o UDec(Neg(x)) ELSE UDec(x)

RECURSIVE Canon(_)
\* A run of digits without its leading zeros.
Canon(ds) == IF Len(ds) > 1 /\ Head(ds) = "0" THEN Canon(Tail(ds)) ELSE ds

RECURSIVE DecTimes(_, _, _)
\* The digits of ds * m + c, by the schoolbook method on the decimal text.
DecTimes(ds, m, c) ==
    IF ds = <<>> THEN IF c = 0 THEN <<>> ELSE Itoa(c)
    ELSE LET t == DigitVal(ds[Len(ds)]) * m + c
         IN  Append(DecTimes(SubSeq(ds, 1, Len(ds) - 1), m, t \div 10),
                    DigitChar(t % 10))

\* The decimal text of n * 1024 * 1024 for the number of text ds.
TimesMiB(ds) == Canon(DecTimes(DecTimes(ds, 1024, 0), 1024, 0))

\* a <= b for numbers given as texts without leading zeros.
DecLeq(a, b) ==
    \/ Len(a) < Len(b)
    \/ /\ Len(a) = Len(b)
       /\ \/ a = b
          \/ \E i \in 1..Len(a) :
                /\ SubSeq(a, 1, i - 1) = SubSeq(b, 1, i - 1)
                /\ DigitVal(a[i]) < DigitVal(b[i])

\* C19 as stated: for every non-negative integer n, parseMemory of "<n> MiB"
\* returns n * 1024 * 1024 and no error, and parsePercentage of "<n>%"
\* returns n and no error.
C19_EveryNumberNormalised ==
    arg.body \in Numbers =>
        /\ (ret.fn = "parseMemory" /\ arg.suffix = <<" ", "M", "i", "B">>)
              => /\ ret.err = "nil"
                 /\ Show64(ret.val) = TimesMiB(arg.body)
        /\ (ret.fn = "parsePercentage" /\ arg.suffix = <<"%">>)
              => /\ ret.err = "nil"
                 /\ Show64(ret.val) = Canon(arg.body)

\* C19: for every non-negative integer n with n * 1024 * 1024 <= 2^63 - 1,
\* parseMemory of "<n> MiB" returns n * 1024 * 1024 and no error; for every
\* non-negative integer n <= 2^63 - 1, parsePercentage of "<n>%" returns n
\* and no error.
C19_NumberInRangeNormalised ==
    arg.body \in Numbers =>
        /\ (/\ ret.fn = "parseMemory"
            /\ arg.suffix = <<" ", "M", "i", "B">>
            /\ DecLeq(TimesMiB(arg.body), Pow63Less1))
              => /\ ret.err = "nil"
                 /\ Show64(ret.val) = TimesMiB(arg.body)
        /\ (/\ ret.fn = "parsePercentage"
            /\ arg.suffix = <<"%">>
            /\ DecLeq(Canon(arg.body), Pow63Less1))
              => /\ ret.err = "nil"
                 /\ Show64(ret.val) = Canon(arg.body)

\* C19 witness: parseMemory has returned for "8796093022207 MiB", the
\* largest number whose byte count fits an int64.
C19_Witness ==
    /\ ret.fn = "parseMemory"
    /\ arg = [body |-> Pow43Less1, suffix |-> <<" ", "M", "i", "B">>]
    /\ ret.err = "nil"
    /\ ret.val = <<32767, 65535, 65520, 0>>

\* The text a lacks the unit suffix of the normalizer fn.
SuffixMissing(fn, a) ==
    IF fn = "parseMemory"
    THEN a.suffix \notin {<<" ", "M", "i", "B">>, <<"M", "i", "B">>}
    ELSE a.suffix \notin {<<"%">>, <<" ", "%">>}

AtMost100(x) == x[1] = 0 /\ x[2] = 0 /\ x[3] = 0 /\ x[4] <= PercentScale

\* C21 as stated: every reading a collector returned from a document or a
\* line whose numeric fields parse as 64-bit values has a memory of at least
\* zero and a utilization from 0 to 100.
C21_ReadingsInRange ==
    (~Dynolog \/ rev = 2) =>
        \A i \in 1..Len(log) :
            \A j \in 1..Len(log[i].data) :
                (Dynolog
                    \/ /\ parseMemory(log[i].out.gpus[j].Used).err = "nil"
                       /\ parsePercentage(log[i].out.gpus[j].GPUUtil).err
                             = "nil")
                   => /\ ~IsNeg(log[i].data[j].MemoryUsedBytes)
                      /\ ~IsNeg(log[i].data[j].GPUUtilPercent)
                      /\ AtMost100(log[i].data[j].GPUUtilPercent)

\* C22: in a synner generate run no step leaves more conversations appended
\* than --max-examples, and a step that issues a generation request starts
\* with fewer than --max-examples counted and appended.
C22_MaxExamplesRespected ==
    [][/\ convs' <= maxEx
       /\ count' <= maxEx
       /\ requests' # requests => (count < maxEx /\ convs < maxEx)]_vars

\* C22 witness: a run with --max-examples 2 has ended with two conversations
\* appended and rows left that its loop never reached.
C22_Witness ==
    /\ synPc = "done"
    /\ maxEx = MaxExamples
    /\ convs = maxEx
    /\ requests > convs
    /\ ri <= Len(rows)

RECURSIVE ValidTexts(_, _, _)
\* The texts of the first n rows of f that are RomanceRows with a text and
\* were not consumed by a failed read, in file order.
ValidTexts(f, lst, n) ==
    IF n = 0 THEN <<>>
    ELSE IF n \notin lst /\ f[n].type = "RomanceRow" /\ f[n].Text # ""
         THEN Append(ValidTexts(f, lst, n - 1), f[n].Text)
         ELSE ValidTexts(f, lst, n - 1)

\* C23: when readAllRows has returned, every row of the file has been read,
\* and the result holds, in file order, exactly the texts of the rows whose
\* read gave no error: a row lost to a read failure, a row of another type
\* and a row of empty text are left out, and the rows after them are there.
C23_InvalidRowsSkipped ==
    synPc = "allRows" =>
        /\ rd = Len(file)
        /\ rows = ValidTexts(file, lost, Len(file))

\* C23 witness: readAllRows has returned the text of the third row of a
\* file whose first row was lost to a read failure and whose second row has
\* an empty text.
C23_Witness ==
    /\ synPc = "allRows"
    /\ Len(file) = 3
    /\ lost = {1}
    /\ file[2] = Row("RomanceRow", "")
    /\ file[3] = Row("RomanceRow", "A")
    /\ rows = <<"A">>

RECURSIVE DecString(_)
\* The decimal string of n >= 0.
DecString(n) ==
    IF n < 10 THEN DigitChar(n)
    ELSE DecString(n \div 10) \o DigitChar(n % 10)

Abs(n) == IF n < 0 THEN -n ELSE n

\* n is x / d with its fraction discarded.
IsTruncation(n, x, d) ==
    /\ Abs(n) * d <= Abs(x)
    /\ Abs(x) < (Abs(n) + 1) * d
    /\ n # 0 => (n < 0 <=> x < 0)

\* The members of a payload of the given key.
MembersOf(js, key) ==
    {js[i] : i \in {j \in 1..Len(js) : js[j].c = "kv" /\ js[j].k = key}}

\* C24: from the JSON object of a matched line the conversion of revision 2
\* gives no error and exactly one reading.  Its name is "DCGM-GPU"; its id
\* is the decimal string of the device member; its memory is the
\* gpu_memory_utilization member times 1024 * 1024 and its utilization the
\* sm_active_ratio member times 100 with the fraction discarded, whether the
\* member is a bare number or a quoted one; a member that is absent or a
\* quoted text that is no number gives 0.
C24_ReadingOfMatchedLine ==
    (ret.fn = "Collect" /\ WellFormed(arg)) =>
        /\ ret.err = "nil"
        /\ Len(ret.val) = 1
        /\ LET r == ret.val[1]
               sm == MembersOf(arg, "sm_active_ratio")
               mem == MembersOf(arg, "gpu_memory_utilization")
           IN  /\ r.Name = "DCGM-GPU"
               /\ \A m \in MembersOf(arg, "device") :
                     r.ID = DecString(m.q \div Eighth)
               /\ sm = {} => r.GPUUtilPercent = Zero64
               /\ \A m \in sm :
                     IF m.ty = "txt" THEN r.GPUUtilPercent = Zero64
                     ELSE \E n \in (-(13 * MaxRatio))..(13 * MaxRatio) :
                             /\ IsTruncation(n, m.q * 100, Eighth)
                             /\ r.GPUUtilPercent = ToInt64(n)
               /\ mem = {} => r.MemoryUsedBytes = Zero64
               /\ \A m \in mem :
                     IF m.ty = "txt" THEN r.MemoryUsedBytes = Zero64
                     ELSE /\ MulAdd(r.MemoryUsedBytes, Eighth, 0).v
                               = ToInt64(m.q * 1024 * 1024)
                          /\ r.MemoryUsedBytes[1] \in {0, Base - 1}
                          /\ IsNeg(r.MemoryUsedBytes) <=> m.q < 0

\* C24 witness: the conversion has returned the reading of
\* {"device":2,"sm_active_ratio":"0.375"}: device "2", no memory, and 37
\* percent for the quoted ratio 0.375.
C24_Witness ==
    /\ ret.fn = "Collect"
    /\ arg = <<Tok("{"), KV("device", "num", 2 * Eighth),
               KV("sm_active_ratio", "str", 3), Tok("}")>>
    /\ ret.val = <<[ID |-> "2", Name |-> "DCGM-GPU",
                    MemoryUsedBytes |-> Zero64,
                    GPUUtilPercent |-> <<0, 0, 0, 37>>]>>

\* The indexes of a sequence of line indexes.
Range(sq) == {sq[i] : i \in 1..Len(sq)}

C26_StreamEndIsFinal ==
    \A i \in Returned : \A j \in Returned :
        (i < j /\ log[i].err = "no dynolog JSON lines found yet") =>
            /\ log[j].err # "nil"
            /\ log[j].data = <<>>
            /\ log[j].lines = <<>>

\* C26 witness: the first call returned a reading, the second the
\* stream-ended error, and the third, after it, the stream-ended error again.
C26_Witness ==
    /\ Dynolog
    /\ Len(log) = 3
    /\ log[1].err = "nil" /\ log[1].data # <<>>
    /\ log[2].err = "no dynolog JSON lines found yet"
    /\ log[3].err = "no dynolog JSON lines found yet" /\ log[3].data = <<>>
====
